---- MODULE Spec2Model ----
(***************************************************************************)
(* Model of server.js: the leaderboard backend of Basketball Clicker.      *)
(*                                                                         *)
(* State: the configured store (pool), the leaderboard table, the two      *)
(* in-memory maps (submitTimes, onlinePlayers), the wall clock, the        *)
(* storage calls that are awaited, and the last thing a handler did.       *)
(* everSubmit and everOnline are the two maps as they would be had no      *)
(* reaper cycle ever run; nextReap is when the interval timer is due.      *)
(* Times are milliseconds, as Date.now() returns them.                     *)
(*                                                                         *)
(* JSON values of a request body are records [t, i, h, s]:                 *)
(*   t = "undefined"            the property is absent                     *)
(*   t = "number"               the number i (h = FALSE) or i + 0.5        *)
(*   t = "NaN"                  the number NaN                             *)
(*   t = "string"               the string with characters s               *)
(* Strings are sequences of one-character strings.                         *)
(***************************************************************************)
EXTENDS Integers, Sequences, FiniteSets, TLC

VARIABLES pool, table, submitTimes, onlinePlayers, now, pending, merged, nsub, ticks, last,
          everSubmit, everOnline, nextReap

vars == <<pool, table, submitTimes, onlinePlayers, now, pending, merged, nsub, ticks, last,
          everSubmit, everOnline, nextReap>>

----------------------------------------------------------------------------
(* Bounds of the model *)

\* Date.now() when the process starts
StartTime == 100000
\* clock advances explored
MaxTicks == 2
\* POST /api/leaderboard requests explored
MaxSubmits == 2
\* storage calls awaited at the same time
MaxPending == 2

----------------------------------------------------------------------------
(* Program constants *)

Cooldown == 10000
OnlineWindow == 60000
MaxNameLen == 20
DefaultLimit == 50
MaxLimit == 100
ReapGrace == 15000
ReapPeriod == 300000

----------------------------------------------------------------------------
(* JavaScript values and the conversions the handlers apply to them *)

Undef == [t |-> "undefined", i |-> 0, h |-> FALSE, s |-> <<>>]
Num(n) == [t |-> "number", i |-> n, h |-> FALSE, s |-> <<>>]
Frac(n) == [t |-> "number", i |-> n, h |-> TRUE, s |-> <<>>]
NaN == [t |-> "NaN", i |-> 0, h |-> FALSE, s |-> <<>>]
Str(chars) == [t |-> "string", i |-> 0, h |-> FALSE, s |-> chars]

UpperChars == <<"A","B","C","D","E","F","G","H","I","J","K","L","M",
                "N","O","P","Q","R","S","T","U","V","W","X","Y","Z">>
LowerChars == <<"a","b","c","d","e","f","g","h","i","j","k","l","m",
                "n","o","p","q","r","s","t","u","v","w","x","y","z">>
DigitChars == <<"0","1","2","3","4","5","6","7","8","9">>
WhiteSpace == {" ", "\t", "\n", "\r"}

Range(f) == {f[k] : k \in DOMAIN f}

\* JS truthiness: undefined, 0, NaN and "" are falsy
Truthy(v) ==
  CASE v.t = "undefined" -> FALSE
    [] v.t = "NaN" -> FALSE
    [] v.t = "number" -> ~(v.i = 0 /\ ~v.h)
    [] v.t = "string" -> Len(v.s) > 0

\* String.prototype.toLowerCase
LowerChar(c) ==
  IF \E k \in DOMAIN UpperChars : UpperChars[k] = c
  THEN LowerChars[CHOOSE k \in DOMAIN UpperChars : UpperChars[k] = c]
  ELSE c

ToLowerCase(chars) == [k \in DOMAIN chars |-> LowerChar(chars[k])]

\* String.prototype.trim
RECURSIVE TrimStart(_)
TrimStart(chars) ==
  IF Len(chars) > 0 /\ Head(chars) \in WhiteSpace THEN TrimStart(Tail(chars)) ELSE chars

RECURSIVE TrimEnd(_)
TrimEnd(chars) ==
  IF Len(chars) > 0 /\ chars[Len(chars)] \in WhiteSpace
  THEN TrimEnd(SubSeq(chars, 1, Len(chars) - 1))
  ELSE chars

Trim(chars) == TrimEnd(TrimStart(chars))

\* /^[a-z0-9_]+$/.test(chars)
MatchesHandle(chars) ==
  /\ Len(chars) >= 1
  /\ \A k \in DOMAIN chars :
       chars[k] \in Range(LowerChars) \cup Range(DigitChars) \cup {"_"}

\* the digits of a string of decimal digits, as a number
RECURSIVE DigitsValue(_)
DigitsValue(chars) ==
  IF Len(chars) = 0 THEN 0
  ELSE 10 * DigitsValue(SubSeq(chars, 1, Len(chars) - 1))
       + (CHOOSE k \in DOMAIN DigitChars : DigitChars[k] = chars[Len(chars)]) - 1

IsDigits(chars) == Len(chars) >= 1 /\ \A k \in DOMAIN chars : chars[k] \in Range(DigitChars)

\* ToNumber on the strings of the model: decimal digits with an optional
\* leading minus sign convert to their value, any other string to NaN
ToNumber(v) ==
  CASE v.t = "number" -> v
    [] v.t = "string" /\ IsDigits(v.s) -> Num(DigitsValue(v.s))
    [] v.t = "string" /\ Len(v.s) >= 2 /\ Head(v.s) = "-" /\ IsDigits(Tail(v.s)) ->
         Num(0 - DigitsValue(Tail(v.s)))
    [] OTHER -> NaN

\* Math.floor(v)
MathFloor(v) == LET n == ToNumber(v) IN IF n.t = "number" THEN Num(n.i) ELSE NaN

\* v || 0
OrZero(v) == IF Truthy(v) THEN v ELSE Num(0)

\* parseInt(v) on the strings of the model
ParseInt(v) == IF v.t = "string" THEN MathFloor(v) ELSE NaN

----------------------------------------------------------------------------
(* The leaderboard table and its statements *)

Fields == {"best_score", "total_earned", "prestiges", "clicks", "play_time"}

EmptyTable == [u \in {} |-> 0]

\* GREATEST(a, b)
GreatestLatest(a, b) == b
GreatestSum(a, b) == a + b
Greatest(a, b) == IF a >= b THEN a ELSE b

\* the parameters $2..$6 of the INSERT
Params(body) == [f \in Fields |-> MathFloor(OrZero(body[f]))]

\* the statement is rejected when a parameter is no integer ("NaN")
ParamsValid(p) == \A f \in Fields : p[f].t = "number"

\* INSERT ... ON CONFLICT (username) DO UPDATE SET f = GREATEST(old.f, EXCLUDED.f)
UpsertBestWins(tbl, clean, p, ts) ==
  LET new == [f \in Fields \cup {"updated_at"} |-> IF f = "updated_at" THEN ts ELSE p[f].i]
      keep == clean \in DOMAIN tbl /\ tbl[clean].best_score >= p.best_score.i
  IN [u \in DOMAIN tbl \cup {clean} |->
        IF u # clean THEN tbl[u]
        ELSE IF keep THEN [tbl[clean] EXCEPT !.updated_at = ts] ELSE new]

UpsertOverwrite(tbl, clean, p, ts) ==
  [u \in DOMAIN tbl \cup {clean} |->
     IF u = clean
     THEN [f \in Fields \cup {"updated_at"} |-> IF f = "updated_at" THEN ts ELSE p[f].i]
     ELSE tbl[u]]
Upsert(tbl, clean, p, ts) ==
  LET old == tbl[clean]
      row == [f \in Fields \cup {"updated_at"} |->
                IF f = "updated_at" THEN ts
                ELSE IF clean \in DOMAIN tbl THEN Greatest(old[f], p[f].i) ELSE p[f].i]
  IN [u \in DOMAIN tbl \cup {clean} |-> IF u = clean THEN row ELSE tbl[u]]

\* DELETE FROM leaderboard WHERE username = $1
DeleteRowAll(tbl, name) == EmptyTable
DeleteRow(tbl, name) == [u \in DOMAIN tbl \ {name} |-> tbl[u]]

\* (SELECT COUNT(*)+1 FROM leaderboard WHERE best_score > l.best_score)
RankCountsTies(tbl, name) ==
  Cardinality({u \in DOMAIN tbl : tbl[u].best_score >= tbl[name].best_score}) + 1
Rank(tbl, name) ==
  Cardinality({u \in DOMAIN tbl : tbl[u].best_score > tbl[name].best_score}) + 1

\* SELECT ... WHERE username = $1: the row with its rank, or no row
SelectPlayer(tbl, name) ==
  IF name \in DOMAIN tbl
  THEN <<[username |-> name, row |-> tbl[name], rank |-> Rank(tbl, name)]>>
  ELSE <<>>

\* ORDER BY best_score DESC LIMIT n: the row orders the statement may return
\* (rows of equal best_score come in any order)
RECURSIVE TopOrdersOf(_, _, _)
TopOrdersOf(tbl, names, n) ==
  IF n = 0 \/ names = {} THEN {<<>>}
  ELSE LET top == {u \in names : \A w \in names : tbl[u].best_score >= tbl[w].best_score}
       IN UNION {{<<u>> \o o : o \in TopOrdersOf(tbl, names \ {u}, n - 1)} : u \in top}

TopOrders(tbl, n) == TopOrdersOf(tbl, DOMAIN tbl, n)

\* Math.min(Math.max(parseInt(req.query.limit) || 50, 1), 100)
Limit(q) ==
  LET n == OrZero(ParseInt(q)).i
      m == IF n = 0 THEN DefaultLimit ELSE n
      lo == IF m > 1 THEN m ELSE 1
  IN IF lo < MaxLimit THEN lo ELSE MaxLimit

----------------------------------------------------------------------------
(* The in-memory maps *)

EmptyMap == [k \in {} |-> 0]

\* Map.prototype.set
MapSet(m, k, v) == [x \in DOMAIN m \cup {k} |-> IF x = k THEN v ELSE m[x]]

\* a map after the reaper's loop: it deletes the entries with t < cutoff
ReapedInclusive(map, cutoff) == [k \in {j \in DOMAIN map : ~(map[j] <= cutoff)} |-> map[k]]
Reaped(map, cutoff) == [k \in {j \in DOMAIN map : ~(map[j] < cutoff)} |-> map[k]]

\* the loop of /api/ping and /api/online: entries with t > Date.now() - 60000
CountOnlineInclusive(players, t) ==
  Cardinality({u \in DOMAIN players : players[u] >= t - OnlineWindow})
CountOnline(players, t) ==
  Cardinality({u \in DOMAIN players : players[u] > t - OnlineWindow})

\* req.headers['x-forwarded-for'] || req.socket.remoteAddress
Ip(r) == IF Truthy(r.xff) THEN r.xff ELSE r.remote

\* submitTimes.get(ip) || 0
LastSubmit(times, ip) == IF ip \in DOMAIN times THEN times[ip] ELSE 0

\* now - last < 10000
RateLimitedInclusive(times, ip, t) == t - LastSubmit(times, ip) <= Cooldown
RateLimited(times, ip, t) == t - LastSubmit(times, ip) < Cooldown

\* the two username checks of POST /api/leaderboard
NameIsString(v) == Truthy(v) /\ v.t = "string"
Clean(v) == ToLowerCase(Trim(v.s))
CleanOkLengthOnly(clean) == ~(Len(clean) < 1 \/ Len(clean) > MaxNameLen)
CleanOk(clean) == ~(Len(clean) < 1 \/ Len(clean) > MaxNameLen \/ ~MatchesHandle(clean))

\* the response a submission gets before any storage call, 0 when it goes on
\* to the storage call
SubmitStatusNameFirst(r, hasPool, times, t) ==
  IF ~hasPool THEN 503
  ELSE IF ~NameIsString(r.body.username) THEN 400
  ELSE IF ~CleanOk(Clean(r.body.username)) THEN 400
  ELSE IF RateLimited(times, Ip(r), t) THEN 429
  ELSE 0
SubmitStatus(r, hasPool, times, t) ==
  IF ~hasPool THEN 503
  ELSE IF RateLimited(times, Ip(r), t) THEN 429
  ELSE IF ~NameIsString(r.body.username) THEN 400
  ELSE IF ~CleanOk(Clean(r.body.username)) THEN 400
  ELSE 0

----------------------------------------------------------------------------
(* Inputs *)

Body(u, best, total, prest, clk, play) ==
  [username |-> u, best_score |-> best, total_earned |-> total,
   prestiges |-> prest, clicks |-> clk, play_time |-> play]

Bob == <<"b","o","b">>
Al1 == <<"a","l","_","1">>
Zed == <<"z","e","d">>
Kim == <<"k","i","m">>
LongName == [k \in 1..(MaxNameLen + 1) |-> "a"]

Lee == <<"l","e","e">>

\* rows written by earlier runs of the server: the table outlives the process
SeedBodies ==
  <<Body(Str(Zed), Num(100), Num(9), Num(2), Num(30), Num(8)),
    Body(Str(Bob), Num(80), Num(4), Num(0), Num(10), Num(1)),
    Body(Str(Kim), Num(80), Num(6), Num(1), Num(20), Num(5)),
    Body(Str(Lee), Num(50), Num(3), Num(0), Num(5), Num(2))>>

RECURSIVE SeedTableOf(_)
SeedTableOf(k) ==
  IF k = 0 THEN EmptyTable
  ELSE Upsert(SeedTableOf(k - 1), Clean(SeedBodies[k].username), Params(SeedBodies[k]), 0)

SeedTable == SeedTableOf(Len(SeedBodies))

\* the submissions each seed row comes from
SeedMerged ==
  [u \in DOMAIN SeedTable |->
     {SeedBodies[k] : k \in {j \in DOMAIN SeedBodies : Clean(SeedBodies[j].username) = u}}]

BobRaw == Str(<<" ","B","o","b">>)
Al1Raw == Str(<<"A","l","_","1">>)
InvalidNames == {Undef, Num(7), Str(<<" "," ">>), Str(<<"a","b","!">>), Str(LongName)}

\* 90, 5.5, 1, absent, 2
SnapA(u) == Body(u, Num(90), Frac(5), Num(1), Undef, Num(2))
\* 80.5, 7, absent, -1, "3"
SnapB(u) == Body(u, Frac(80), Num(7), Undef, Num(0 - 1), Str(<<"3">>))
\* -2 and nothing else
SnapC(u) == Body(u, Num(0 - 2), Undef, Undef, Undef, Undef)
\* a best_score that is no number
SnapD(u) == Body(u, Str(<<"a","b","c">>), Num(1), Num(1), Num(1), Num(1))

Peer == Str(<<"1",".","1">>)
Forwarded == {Undef, Str(<<"2",".","2">>)}

Request(x, b) == [xff |-> x, remote |-> Peer, body |-> b]

\* submissions that differ in origin and username
RateRequests ==
  {Request(x, SnapA(u)) : x \in Forwarded, u \in {BobRaw, Undef, Str(<<"a","b","!">>)}}

\* submissions that differ in what they carry
MergeRequests ==
  {Request(x, b) : x \in Forwarded,
                   b \in {SnapA(BobRaw), SnapB(BobRaw), SnapC(BobRaw), SnapD(BobRaw),
                          SnapC(Al1Raw)} \cup {SnapA(u) : u \in InvalidNames}}

PingNames == {Undef, Num(7), Str(<<" "," ">>), Str(<<" ","B","o","b">>), Str(<<"a","b","!">>)}

\* :username of the GET and DELETE routes
GetNames == {<<"B","O","B">>, <<"K","i","m">>, <<"z","e","d">>, <<"l","e","e">>, <<"n","o","n","e">>}
DeleteNames == {<<"B","O","B">>, <<"n","o","n","e">>}

LimitParams == {Undef, Str(<<"0">>), Str(<<"-","5">>), Str(<<"2">>), Str(<<"5","0","0">>), Str(<<"x">>)}

\* clock advances around the cooldown, and around the online window
CooldownSteps == {1, Cooldown - 1}
WindowSteps == {1, OnlineWindow - 1, OnlineWindow + 1000}

\* submissions and pings that fill the reaper's maps
ReapRequests == {Request(x, SnapA(BobRaw)) : x \in Forwarded}
ReapRateRequests == {Request(x, SnapA(u)) : x \in Forwarded, u \in {BobRaw, Undef}}
ReapPings == {BobRaw, Al1Raw}

\* clock advances up to the reaper's period, and around its two cutoffs
ReapSteps == {ReapPeriod, ReapGrace, OnlineWindow}
ReapRateSteps == {ReapPeriod, Cooldown - 1, ReapGrace + 1}
ReapOnlineSteps == {ReapPeriod, ReapGrace + 1, OnlineWindow, OnlineWindow + 1}

----------------------------------------------------------------------------
(* Initial state: the process has started; the table holds what earlier    *)
(* runs left in it, the two maps are empty                                 *)

NoResponse == [op |-> "none", status |-> 0, body |-> 0, req |-> Undef, prev |-> 0, at |-> 0]

Init ==
  /\ pool \in BOOLEAN
  /\ table = (IF pool THEN SeedTable ELSE EmptyTable)
  /\ merged = (IF pool THEN SeedMerged ELSE EmptyMap)
  /\ submitTimes = EmptyMap
  /\ onlinePlayers = EmptyMap
  /\ everSubmit = EmptyMap
  /\ everOnline = EmptyMap
  /\ nextReap = StartTime + ReapPeriod
  /\ now = StartTime
  /\ pending = <<>>
  /\ nsub = 0
  /\ ticks = 0
  /\ last = NoResponse

InitNoStore == Init /\ ~pool

----------------------------------------------------------------------------
(* Handlers *)

\* POST /api/ping
PingNeedsStore(v) ==
  /\ onlinePlayers' = (IF pool /\ NameIsString(v) THEN MapSet(onlinePlayers, Clean(v), now)
                       ELSE onlinePlayers)
  /\ everOnline' = (IF pool /\ NameIsString(v) THEN MapSet(everOnline, Clean(v), now)
                    ELSE everOnline)
  /\ last' = [op |-> "ping", status |-> 200, body |-> CountOnline(onlinePlayers', now), req |-> v, prev |-> 0, at |-> now]
  /\ UNCHANGED <<pool, nextReap, table, submitTimes, everSubmit, now, pending, merged, nsub, ticks>>
Ping(v) ==
  /\ onlinePlayers' = (IF NameIsString(v) THEN MapSet(onlinePlayers, Clean(v), now)
                       ELSE onlinePlayers)
  /\ everOnline' = (IF NameIsString(v) THEN MapSet(everOnline, Clean(v), now)
                    ELSE everOnline)
  /\ last' = [op |-> "ping", status |-> 200, body |-> CountOnline(onlinePlayers', now), req |-> v, prev |-> 0, at |-> now]
  /\ UNCHANGED <<pool, nextReap, table, submitTimes, everSubmit, now, pending, merged, nsub, ticks>>

\* GET /api/online
Online ==
  /\ last' = [op |-> "online", status |-> 200, body |-> CountOnline(onlinePlayers, now), req |-> Undef, prev |-> 0, at |-> now]
  /\ UNCHANGED <<pool, nextReap, table, submitTimes, everSubmit, onlinePlayers, everOnline, now, pending, merged, nsub, ticks>>

\* the columns the SELECTs return
RowOut(tbl, name) == [f \in Fields \cup {"username"} |-> IF f = "username" THEN name ELSE tbl[name][f]]

\* GET /api/leaderboard?limit=q
ListTop(q) ==
  /\ IF ~pool
     THEN last' = [op |-> "list", status |-> 200, body |-> <<>>, req |-> q, prev |-> 0, at |-> now]
     ELSE \E ok \in BOOLEAN :
            IF ok
            THEN \E o \in TopOrders(table, Limit(q)) :
                   last' = [op |-> "list", status |-> 200,
                            body |-> [k \in DOMAIN o |-> RowOut(table, o[k])], req |-> q, prev |-> 0, at |-> now]
            ELSE last' = [op |-> "list", status |-> 500, body |-> <<>>, req |-> q, prev |-> 0, at |-> now]
  /\ UNCHANGED <<pool, nextReap, table, submitTimes, everSubmit, onlinePlayers, everOnline, now, pending, merged, nsub, ticks>>

\* GET /api/leaderboard/:username; body is rows, answered as rows[0] || null
GetPlayerSeen(u) ==
  /\ onlinePlayers' = MapSet(onlinePlayers, ToLowerCase(u), now)
  /\ last' = [op |-> "player", status |-> 200,
              body |-> (IF pool THEN SelectPlayer(table, ToLowerCase(u)) ELSE <<>>),
              req |-> Str(u), prev |-> 0, at |-> now]
  /\ UNCHANGED <<pool, nextReap, table, submitTimes, everSubmit, everOnline, now, pending, merged, nsub, ticks>>
GetPlayer(u) ==
  /\ IF ~pool
     THEN last' = [op |-> "player", status |-> 200, body |-> <<>>, req |-> Str(u), prev |-> 0, at |-> now]
     ELSE \E ok \in BOOLEAN :
            IF ok
            THEN last' = [op |-> "player", status |-> 200,
                          body |-> SelectPlayer(table, ToLowerCase(u)), req |-> Str(u), prev |-> 0, at |-> now]
            ELSE last' = [op |-> "player", status |-> 500, body |-> <<>>, req |-> Str(u), prev |-> 0, at |-> now]
  /\ UNCHANGED <<pool, nextReap, table, submitTimes, everSubmit, onlinePlayers, everOnline, now, pending, merged, nsub, ticks>>

\* what a response record keeps of a submission: its origin and its username
Echo(r) == [xff |-> r.xff, remote |-> r.remote, username |-> r.body.username]

\* POST /api/leaderboard, up to its await: the checks, and the storage call issued
Submit(r) ==
  LET st == SubmitStatus(r, pool, submitTimes, now) IN
  /\ st = 0 => nsub < MaxSubmits /\ Len(pending) < MaxPending
  /\ nsub' = (IF st = 0 THEN nsub + 1 ELSE nsub)
  /\ submitTimes' = (IF pool /\ ~RateLimited(submitTimes, Ip(r), now)
                     THEN MapSet(submitTimes, Ip(r), now) ELSE submitTimes)
  /\ everSubmit' = (IF pool /\ ~RateLimited(everSubmit, Ip(r), now)
                    THEN MapSet(everSubmit, Ip(r), now) ELSE everSubmit)
  /\ pending' = (IF st = 0
                 THEN Append(pending, [seq |-> nsub', clean |-> Clean(r.body.username),
                                       req |-> Echo(r), params |-> Params(r.body), body |-> r.body])
                 ELSE pending)
  /\ last' = [op |-> "submit", status |-> st, body |-> nsub', req |-> Echo(r),
              prev |-> LastSubmit(submitTimes, Ip(r)), at |-> now]
  /\ UNCHANGED <<pool, nextReap, table, onlinePlayers, everOnline, now, merged, ticks>>

Without(seq, k) == [j \in 1..(Len(seq) - 1) |-> IF j < k THEN seq[j] ELSE seq[j + 1]]

DbExecRetries(k) ==
  LET q == pending[k] IN
  /\ k \in DOMAIN pending
  /\ \E ok \in BOOLEAN :
       IF ok /\ ParamsValid(q.params)
       THEN /\ table' = Upsert(table, q.clean, q.params, now)
            /\ merged' = MapSet(merged, q.clean,
                                (IF q.clean \in DOMAIN merged THEN merged[q.clean] ELSE {})
                                  \cup {q.body})
            /\ pending' = Without(pending, k)
            /\ last' = [op |-> "submit", status |-> 200, body |-> q.seq, req |-> q.req,
                        prev |-> (IF q.clean \in DOMAIN table THEN table[q.clean].updated_at ELSE 0),
                        at |-> now]
       ELSE /\ last' = [op |-> "submit", status |-> 500, body |-> q.seq, req |-> q.req, prev |-> 0, at |-> now]
            /\ UNCHANGED <<table, merged, pending>>
  /\ UNCHANGED <<pool, nextReap, submitTimes, everSubmit, onlinePlayers, everOnline, now, nsub, ticks>>

\* POST /api/leaderboard, from its await on: the INSERT .. ON CONFLICT runs as
\* one statement, or throws; prev records the updated_at of the row the
\* statement found (0 when it inserted)
DbExec(k) ==
  LET q == pending[k] IN
  /\ k \in DOMAIN pending
  /\ pending' = Without(pending, k)
  /\ \E ok \in BOOLEAN :
       IF ok /\ ParamsValid(q.params)
       THEN /\ table' = Upsert(table, q.clean, q.params, now)
            /\ merged' = MapSet(merged, q.clean,
                                (IF q.clean \in DOMAIN merged THEN merged[q.clean] ELSE {})
                                  \cup {q.body})
            /\ last' = [op |-> "submit", status |-> 200, body |-> q.seq, req |-> q.req,
                        prev |-> (IF q.clean \in DOMAIN table THEN table[q.clean].updated_at ELSE 0),
                        at |-> now]
       ELSE /\ last' = [op |-> "submit", status |-> 500, body |-> q.seq, req |-> q.req, prev |-> 0, at |-> now]
            /\ UNCHANGED <<table, merged>>
  /\ UNCHANGED <<pool, nextReap, submitTimes, everSubmit, onlinePlayers, everOnline, now, nsub, ticks>>

\* DELETE /api/leaderboard/:username
Delete(u) ==
  /\ IF ~pool
     THEN /\ last' = [op |-> "delete", status |-> 503, body |-> 0, req |-> Str(u), prev |-> 0, at |-> now]
          /\ UNCHANGED <<table, merged>>
     ELSE \E ok \in BOOLEAN :
            IF ok
            THEN /\ table' = DeleteRow(table, ToLowerCase(u))
                 /\ merged' = DeleteRow(merged, ToLowerCase(u))
                 /\ last' = [op |-> "delete", status |-> 200, body |-> 0, req |-> Str(u), prev |-> 0, at |-> now]
            ELSE /\ last' = [op |-> "delete", status |-> 500, body |-> 0, req |-> Str(u), prev |-> 0, at |-> now]
                 /\ UNCHANGED <<table, merged>>
  /\ UNCHANGED <<pool, nextReap, submitTimes, everSubmit, onlinePlayers, everOnline, now, pending, nsub, ticks>>

\* the setInterval callback: entries of both maps older than their cutoff go
ReaperShortGrace ==
  /\ now >= nextReap
  /\ nextReap' = now + ReapPeriod
  /\ submitTimes' = Reaped(submitTimes, now - (ReapGrace - Cooldown))
  /\ onlinePlayers' = Reaped(onlinePlayers, now - OnlineWindow)
  /\ last' = [op |-> "reap", status |-> 0, body |-> 0, req |-> Undef, prev |-> 0, at |-> now]
  /\ UNCHANGED <<pool, table, everSubmit, everOnline, now, pending, merged, nsub, ticks>>
ReaperOneCutoff ==
  /\ now >= nextReap
  /\ nextReap' = now + ReapPeriod
  /\ submitTimes' = Reaped(submitTimes, now - ReapGrace)
  /\ onlinePlayers' = Reaped(onlinePlayers, now - ReapGrace)
  /\ last' = [op |-> "reap", status |-> 0, body |-> 0, req |-> Undef, prev |-> 0, at |-> now]
  /\ UNCHANGED <<pool, table, everSubmit, everOnline, now, pending, merged, nsub, ticks>>
Reaper ==
  /\ now >= nextReap
  /\ nextReap' = now + ReapPeriod
  /\ submitTimes' = Reaped(submitTimes, now - ReapGrace)
  /\ onlinePlayers' = Reaped(onlinePlayers, now - OnlineWindow)
  /\ last' = [op |-> "reap", status |-> 0, body |-> 0, req |-> Undef, prev |-> 0, at |-> now]
  /\ UNCHANGED <<pool, table, everSubmit, everOnline, now, pending, merged, nsub, ticks>>

\* the wall clock advances
Tick(d) ==
  /\ ticks < MaxTicks
  /\ ticks' = ticks + 1
  /\ now' = now + d
  /\ UNCHANGED <<pool, nextReap, table, submitTimes, everSubmit, onlinePlayers, everOnline, pending, merged, nsub, last>>

----------------------------------------------------------------------------
(* Specifications *)

\* the checks of a submission, against the clock
Next ==
  \/ \E r \in RateRequests : Submit(r)
  \/ \E k \in 1..MaxPending : DbExec(k)
  \/ \E d \in CooldownSteps : Tick(d)

Spec == Init /\ [][Next]_vars

\* the merge: submissions that carry different values, their storage calls in
\* any order, and deletes
NextMerge ==
  \/ \E r \in MergeRequests : Submit(r)
  \/ \E k \in 1..MaxPending : DbExec(k)
  \/ \E u \in DeleteNames : Delete(u)

SpecMerge == Init /\ [][NextMerge]_vars

\* the read path, over the tables that submissions and deletes produce
NextRead ==
  \/ \E r \in MergeRequests : Submit(r)
  \/ \E k \in 1..MaxPending : DbExec(k)
  \/ \E u \in DeleteNames : Delete(u)
  \/ \E u \in GetNames : GetPlayer(u)
  \/ \E q \in LimitParams : ListTop(q)

SpecRead == Init /\ [][NextRead]_vars

\* the read routes, while submissions and pings fill the maps and the table
NextServe ==
  \/ \E r \in RateRequests : Submit(r)
  \/ \E k \in 1..MaxPending : DbExec(k)
  \/ \E v \in {BobRaw, Undef} : Ping(v)
  \/ Online
  \/ \E u \in GetNames : GetPlayer(u)
  \/ \E q \in LimitParams : ListTop(q)

SpecServe == Init /\ [][NextServe]_vars

\* presence: pings and online queries
NextPresence ==
  \/ \E v \in PingNames : Ping(v)
  \/ Online
  \/ \E d \in WindowSteps : Tick(d)

SpecPresence == Init /\ [][NextPresence]_vars

\* every route of a server started without a store
NextNoStore ==
  \/ \E v \in PingNames : Ping(v)
  \/ Online
  \/ \E r \in RateRequests : Submit(r)
  \/ \E u \in DeleteNames : Delete(u)
  \/ \E u \in GetNames : GetPlayer(u)
  \/ \E q \in LimitParams : ListTop(q)
  \/ \E d \in WindowSteps : Tick(d)

SpecNoStore == InitNoStore /\ [][NextNoStore]_vars

\* the reaper, over maps that submissions and pings fill
NextReaper ==
  \/ \E r \in ReapRequests : Submit(r)
  \/ \E v \in {BobRaw} : Ping(v)
  \/ Reaper
  \/ \E d \in ReapSteps : Tick(d)

SpecReaper == Init /\ [][NextReaper]_vars

\* the rate check, with the reaper running in between
NextReapRate ==
  \/ \E r \in ReapRateRequests : Submit(r)
  \/ Reaper
  \/ \E d \in ReapRateSteps : Tick(d)

SpecReapRate == Init /\ [][NextReapRate]_vars

\* the online count, with the reaper running in between
NextReapOnline ==
  \/ \E v \in ReapPings : Ping(v)
  \/ Online
  \/ Reaper
  \/ \E d \in ReapOnlineSteps : Tick(d)

SpecReapOnline == Init /\ [][NextReapOnline]_vars

----------------------------------------------------------------------------
(* Properties *)

SetMax(S) == CHOOSE x \in S : \A y \in S : x >= y

\* twice the number a JSON value denotes
Twice(v) == 2 * v.i + (IF v.h THEN 1 ELSE 0)

\* what a submitted value counts for: the number below it, 0 when it is absent
Floored(v) ==
  CASE v.t = "number" -> v.i
    [] v.t = "string" /\ IsDigits(v.s) -> DigitsValue(v.s)
    [] OTHER -> 0

\* the last handler has just answered: nothing happened since
Fresh == last.at = now

\* the last record is that of a submission's checks (not of its storage call)
Checked == last.op = "submit" /\ last.status \in {0, 400, 429, 503}

\* C1: over accepted submissions with no delete in between, no numeric field of
\* a stored record ever decreases from one merge to the next
C1_NeverDecreases ==
  [][\A u \in DOMAIN table \cap DOMAIN table' :
       \A f \in Fields : table'[u][f] >= table[u][f]]_vars

\* a merge has kept a stored value above a lower submitted one
C1_Witness ==
  /\ last.op = "submit" /\ last.status = 200
  /\ \E u \in DOMAIN table \cap DOMAIN merged : \E b \in merged[u] :
       /\ Cardinality(merged[u]) >= 2
       /\ Floored(b.best_score) < table[u].best_score

\* C2 as stated: each stored field is the maximum of the values submitted for
\* it, whatever the order of the submissions
C2_MaxOfSubmitted ==
  \A u \in DOMAIN table : \A f \in Fields :
    LET sent == {b[f] : b \in merged[u]}
        nums == {v \in sent : v.t = "number"}
    IN nums # {} => 2 * table[u][f] = SetMax({Twice(v) : v \in nums})

\* C2 as amended: each stored field is the maximum of Math.floor(v || 0) over
\* the values v submitted for it, and two awaited storage calls give the same
\* table in either order
C2_MaxOfFloored ==
  /\ DOMAIN table = DOMAIN merged
  /\ \A u \in DOMAIN table : \A f \in Fields :
       table[u][f] = SetMax({Floored(b[f]) : b \in merged[u]})
  /\ \A j, k \in DOMAIN pending :
       (j # k /\ ParamsValid(pending[j].params) /\ ParamsValid(pending[k].params)) =>
         Upsert(Upsert(table, pending[j].clean, pending[j].params, now),
                pending[k].clean, pending[k].params, now)
           = Upsert(Upsert(table, pending[k].clean, pending[k].params, now),
                    pending[j].clean, pending[j].params, now)

\* two snapshots, each higher in some field, are merged into one record
C2_Witness ==
  /\ Bob \in DOMAIN merged
  /\ SnapA(BobRaw) \in merged[Bob] /\ SnapB(BobRaw) \in merged[Bob]

\* C3: whatever the order in which concurrent storage calls for one identity
\* run, no stored field is lower than a value a completed submission carried
\* or than the value stored before
C3_AtomicMerge ==
  \A u \in DOMAIN merged :
    /\ u \in DOMAIN table
    /\ \A b \in merged[u] : \A f \in Fields : table[u][f] >= Floored(b[f])

\* a submission has completed while an earlier one for the same identity,
\* carrying a higher value, is still awaited
C3_Witness ==
  /\ last.op = "submit" /\ last.status = 200
  /\ \E k \in DOMAIN pending :
       /\ pending[k].clean = Clean(last.req.username)
       /\ pending[k].seq < last.body
       /\ ParamsValid(pending[k].params)
       /\ pending[k].params.best_score.i >= table[pending[k].clean].best_score

\* a value that is a handle once trimmed and lowercased: a string of 1 to 20
\* characters among a-z, 0-9 and _
HandleShape(v) ==
  /\ v.t = "string"
  /\ LET c == ToLowerCase(Trim(v.s))
     IN /\ Len(c) >= 1 /\ Len(c) <= MaxNameLen
        /\ \A k \in DOMAIN c : c[k] \in Range(LowerChars) \cup Range(DigitChars) \cup {"_"}

\* the origin of the last submission had an entry less than the cooldown old
WasLimited == last.prev # 0 /\ last.at - last.prev < Cooldown

\* C4: the rate check rejects exactly when the origin has an entry less than
\* 10 s old, and otherwise records now for the origin; so two submissions of
\* one origin that pass are at least 10 s apart
C4_RateCheck ==
  (Fresh /\ Checked /\ pool) =>
    LET k == Ip(last.req) IN
    /\ last.status = 429 <=> WasLimited
    /\ last.status = 429 => LastSubmit(submitTimes, k) = last.prev
    /\ last.status # 429 =>
         /\ k \in DOMAIN submitTimes /\ submitTimes[k] = last.at
         /\ last.prev # 0 => last.at - last.prev >= Cooldown

\* a submission exactly 10 s after the last accepted one of its origin passes
C4_Witness ==
  /\ Fresh /\ Checked /\ last.status = 0
  /\ last.prev # 0 /\ last.at - last.prev = Cooldown

\* C5: a submission is answered by the first failing check, in the order
\* store (503), rate limit (429), username (400); only one that passes all
\* three reaches the storage call, which ends in 200 or 500
C5_CheckOrder ==
  /\ (Fresh /\ Checked) =>
       /\ ~pool => last.status = 503
       /\ (pool /\ WasLimited) => last.status = 429
       /\ (pool /\ ~WasLimited /\ ~HandleShape(last.req.username)) => last.status = 400
       /\ (pool /\ ~WasLimited /\ HandleShape(last.req.username)) =>
            /\ last.status = 0
            /\ \E k \in DOMAIN pending : pending[k].seq = last.body
  /\ (last.op = "submit" /\ ~Checked) =>
       /\ last.status \in {200, 500}
       /\ pool /\ HandleShape(last.req.username)
       /\ last.status = 200 => Clean(last.req.username) \in DOMAIN table
  /\ \A k \in DOMAIN pending : pool /\ pending[k].clean = Clean(pending[k].req.username)
                                 /\ HandleShape(pending[k].req.username)

\* a submission that is rate-limited and has an invalid username gets 429
C5_Witness ==
  /\ Fresh /\ Checked /\ last.status = 429
  /\ ~HandleShape(last.req.username)

C7_NonNegative ==
  \A u \in DOMAIN table : \A f \in Fields : table[u][f] >= 0

\* C8 as stated: a ping without a valid identity leaves the presence map as it
\* is; one with a valid identity sets the entry of the normalized identity to
\* now and no other
C8_PingFrame ==
  [][(last'.op = "ping" /\ last' # last) =>
       /\ last'.status = 200
       /\ IF HandleShape(last'.req)
          THEN onlinePlayers' = MapSet(onlinePlayers, ToLowerCase(Trim(last'.req.s)), now)
          ELSE onlinePlayers' = onlinePlayers]_vars

\* C9: the rank of a stored identity is 1 plus the number of identities with
\* a strictly greater best_score, so equal scores share a rank; an absent
\* identity gives null
C9_Rank ==
  (last.op = "player" /\ last.status = 200 /\ pool) =>
    LET name == ToLowerCase(last.req.s) IN
    IF name \in DOMAIN table
    THEN /\ Len(last.body) = 1
         /\ last.body[1].username = name
         /\ last.body[1].rank - 1 =
              Cardinality({u \in DOMAIN table : table[u].best_score > table[name].best_score})
         /\ \A u \in DOMAIN table :
              table[u].best_score = table[name].best_score =>
                last.body[1].rank + Cardinality({w \in DOMAIN table :
                                     table[w].best_score <= table[u].best_score})
                  = Cardinality(DOMAIN table) + 1
    ELSE last.body = <<>>

\* with best scores 100, 80, 80, 50 an 80-scorer is answered rank 2
C9_Witness ==
  /\ last.op = "player" /\ last.status = 200 /\ Len(last.body) = 1
  /\ last.body[1].rank = 2
  /\ last.body[1].row.best_score = 80
  /\ {table[u].best_score : u \in DOMAIN table} = {100, 80, 50}
  /\ Cardinality({u \in DOMAIN table : table[u].best_score = 80}) = 2

\* C10: without a store, the list is answered 200 with no rows, submissions
\* and deletes 503, and pings and online queries record and count as ever
C10_NoStore ==
  ~pool =>
    /\ table = EmptyTable /\ pending = <<>> /\ submitTimes = EmptyMap
    /\ last.op = "list" => last.status = 200 /\ last.body = <<>>
    /\ last.op = "player" => last.status = 200 /\ last.body = <<>>
    /\ last.op \in {"submit", "delete"} => last.status = 503
    /\ (Fresh /\ last.op \in {"ping", "online"}) =>
         /\ last.status = 200
         /\ last.body = Cardinality({u \in DOMAIN onlinePlayers :
                                       onlinePlayers[u] > now - OnlineWindow})
    /\ (Fresh /\ last.op = "ping" /\ last.req.t = "string" /\ Len(last.req.s) > 0) =>
         /\ ToLowerCase(Trim(last.req.s)) \in DOMAIN onlinePlayers
         /\ onlinePlayers[ToLowerCase(Trim(last.req.s))] = now

\* a server without a store has counted a player who pinged
C10_Witness ==
  /\ ~pool /\ Fresh /\ last.op = "ping" /\ last.body >= 1
  /\ last.req.t = "string"

\* a step in which the storage call pending[k] has ended, with 200 or 500
Finishing(k) ==
  /\ k \in DOMAIN pending
  /\ last'.op = "submit" /\ last'.status \in {200, 500}
  /\ last'.body = pending[k].seq
  /\ now' = now

\* the storage call pending[k] carries a snapshot already merged into its row
Repeated(k) ==
  /\ pending[k].clean \in DOMAIN table \cap DOMAIN merged
  /\ pending[k].body \in merged[pending[k].clean]

\* C11 as stated: merging, after the cooldown, a snapshot that was merged
\* before leaves the stored record as it was
C11_RecordUnchanged ==
  [][\A k \in DOMAIN pending :
       (/\ Finishing(k) /\ last'.status = 200 /\ Repeated(k)
        /\ now - table[pending[k].clean].updated_at >= Cooldown)
       => table' = table]_vars

\* C11, amended: merging a snapshot that was merged before leaves the five
\* numeric fields of the record and every other record as they were, and sets
\* the record's updated_at to the time of the merge
C11_FieldsUnchanged ==
  [][\A k \in DOMAIN pending :
       (Finishing(k) /\ last'.status = 200 /\ Repeated(k))
       => /\ DOMAIN table' = DOMAIN table
          /\ \A u \in DOMAIN table \ {pending[k].clean} : table'[u] = table[u]
          /\ \A f \in Fields : table'[pending[k].clean][f] = table[pending[k].clean][f]
          /\ table'[pending[k].clean].updated_at = now]_vars

\* the same snapshot has been merged into a row a second time, a cooldown or
\* more after the first
C11_Witness ==
  /\ Fresh /\ last.op = "submit" /\ last.status = 200
  /\ last.prev >= StartTime /\ now - last.prev >= Cooldown
  /\ Clean(last.req.username) = Bob
  /\ SnapA(BobRaw) \in merged[Bob]
  /\ table[Bob].updated_at = now
  /\ \A f \in Fields : table[Bob][f] = SetMax({Floored(b[f]) : b \in merged[Bob]})

\* C12: a submission rejected with 503, 429 or 400 leaves the rate-limit entry
\* of its origin as it was: absent, or at the time of the last accepted one
C12_RejectedKeepsEntry ==
  (Checked /\ last.status \in {400, 429, 503}) =>
    LastSubmit(submitTimes, Ip(last.req)) = last.prev

\* the limit C13 states for a query: the requested number clamped to 1..100,
\* the default when none is given
StatedLimit(q) ==
  LET n == ParseInt(q) IN
  IF n.t # "number" THEN DefaultLimit
  ELSE IF n.i < 1 THEN 1
  ELSE IF n.i > MaxLimit THEN MaxLimit
  ELSE n.i

\* C13: the list holds at most L records in non-increasing order of best_score,
\* L being the requested limit clamped to 1..100 (below 1 gives 1, above 100
\* gives 100) and 50 when no limit is given
C13_ClampedList ==
  (pool /\ last.op = "list" /\ last.status = 200) =>
    /\ Len(last.body) <= StatedLimit(last.req)
    /\ \A j \in 1..(Len(last.body) - 1) :
         last.body[j].best_score >= last.body[j + 1].best_score

\* an identity in canonical form: 1 to 20 characters out of a-z, 0-9 and _
Canonical(u) ==
  /\ Len(u) >= 1 /\ Len(u) <= MaxNameLen
  /\ \A k \in DOMAIN u : u[k] \in Range(LowerChars) \cup Range(DigitChars) \cup {"_"}

\* C14: the identity of every stored record is canonical (so no two records
\* have identities that differ in case or in spaces around). A submission goes
\* on to the storage call only when its trimmed, lowercased username is
\* canonical, and then under that identity; any other submission is rejected,
\* with 400 when it gets as far as the username check, and a rejected
\* submission issues no storage call and leaves every record as it was
C14_CanonicalIdentity ==
  /\ \A u \in DOMAIN table : Canonical(u)
  /\ [][/\ \A u \in DOMAIN table' \ DOMAIN table : Canonical(u)
        /\ (now' = now /\ last'.op = "submit" /\ last'.status \notin {200, 500}) =>
             /\ last'.status \in {0, 400, 429, 503}
             /\ (pool /\ ~RateLimited(submitTimes, Ip(last'.req), now)) =>
                  last'.status \in {0, 400}
             /\ last'.status = 0 =>
                  /\ HandleShape(last'.req.username)
                  /\ Len(pending') = Len(pending) + 1
                  /\ Canonical(pending'[Len(pending')].clean)
             /\ last'.status # 0 =>
                  table' = table /\ pending' = pending /\ nsub' = nsub]_vars

\* a record submitted under a username with an upper-case letter is stored
\* under the lowercased identity
C14_Witness ==
  /\ last.op = "submit" /\ last.status = 200
  /\ last.req.username = Al1Raw
  /\ Al1 \in DOMAIN table
  /\ Al1Raw.s \notin DOMAIN table

\* C15: a read request (list, player, online) leaves the rate-limit map, the
\* presence map, every stored record and the awaited storage calls as they
\* were, and is answered 200 (or 500 when the query fails), never 429
C15_ReadsChangeNothing ==
  [][(now' = now /\ last'.op \in {"list", "player", "online"}) =>
       /\ submitTimes' = submitTimes
       /\ onlinePlayers' = onlinePlayers
       /\ table' = table
       /\ pending' = pending
       /\ last'.status \in {200, 500}
       /\ last'.op = "online" => last'.status = 200]_vars

\* a player was read while an origin was inside its cooldown and a player was
\* online
C15_Witness ==
  /\ Fresh /\ last.op = "player" /\ last.status = 200 /\ Len(last.body) = 1
  /\ \E k \in DOMAIN submitTimes : now - submitTimes[k] < Cooldown
  /\ \E u \in DOMAIN onlinePlayers : onlinePlayers[u] > now - OnlineWindow
  /\ table # SeedTable

\* the table after a submission of the snapshot of storage call q is merged at
\* time t
Resubmitted(tbl, q, t) == Upsert(tbl, q.clean, Params(q.body), t)

\* C16: a storage call that fails is answered 500, leaves every record as it
\* was and is not tried again; merging the same snapshot later then gives the
\* table that the later merge gives when the first call succeeded
C16_FailureIsSafe ==
  [][\A k \in DOMAIN pending :
       (Finishing(k) /\ last'.status = 500) =>
         /\ table' = table /\ merged' = merged
         /\ pending' = Without(pending, k)
         /\ nsub' = nsub /\ submitTimes' = submitTimes
         /\ ParamsValid(pending[k].params) =>
              \A d \in {0, 1, Cooldown} :
                Resubmitted(table', pending[k], now + d)
                  = Resubmitted(Upsert(table, pending[k].clean, pending[k].params, now),
                                pending[k], now + d)]_vars

\* the first storage call failed, and a cooldown later the second one, for the
\* same snapshot, found the row as it was at the start and merged into it
C16_Witness ==
  /\ Fresh /\ last.op = "submit" /\ last.status = 200
  /\ last.body = 2 /\ last.prev = 0 /\ pending = <<>>
  /\ now - StartTime >= Cooldown
  /\ merged[Bob] = SeedMerged[Bob] \cup {SnapA(BobRaw)}
  /\ table[Bob].updated_at = now
  /\ table[Bob].best_score = 90

\* C17: a DELETE that the store carries out is answered 200 whether or not the
\* identity has a record; afterwards the identity has none, every other record
\* is as it was, and deleting it once more changes nothing
C17_DeleteIdempotent ==
  [][(now' = now /\ last'.op = "delete" /\ last'.status = 200) =>
       LET name == ToLowerCase(last'.req.s) IN
       /\ name \notin DOMAIN table'
       /\ DOMAIN table' = DOMAIN table \ {name}
       /\ \A u \in DOMAIN table' : table'[u] = table[u]
       /\ name \notin DOMAIN table => table' = table
       /\ [u \in DOMAIN table' \ {name} |-> table'[u]] = table'
       /\ submitTimes' = submitTimes /\ pending' = pending]_vars

\* an identity that has no record was deleted with 200 after a record had
\* been deleted, and the other records are those of the start
C17_Witness ==
  /\ last.op = "delete" /\ last.status = 200
  /\ ToLowerCase(last.req.s) \notin DOMAIN SeedTable
  /\ DOMAIN table = DOMAIN SeedTable \ {Bob}
  /\ \A u \in DOMAIN table : table[u] = SeedTable[u]

\* a step of the reaper
Reaping == last'.op = "reap" /\ now' = now /\ nextReap' # nextReap

\* C18: a reaper cycle removes exactly the rate-limit entries older than 15 s
\* and the presence entries older than 60 s and keeps the others with their
\* timestamps; it leaves records and awaited storage calls alone; right after
\* it no rate-limit entry is older than 15 s and no presence entry older than
\* 60 s, and empty maps stay empty
C18_ReaperCycle ==
  [][Reaping =>
       /\ DOMAIN submitTimes' = {k \in DOMAIN submitTimes : now - submitTimes[k] <= ReapGrace}
       /\ \A k \in DOMAIN submitTimes' : submitTimes'[k] = submitTimes[k]
       /\ DOMAIN onlinePlayers' =
            {u \in DOMAIN onlinePlayers : now - onlinePlayers[u] <= OnlineWindow}
       /\ \A u \in DOMAIN onlinePlayers' : onlinePlayers'[u] = onlinePlayers[u]
       /\ \A k \in DOMAIN submitTimes' : now' - submitTimes'[k] <= ReapGrace
       /\ \A u \in DOMAIN onlinePlayers' : now' - onlinePlayers'[u] <= OnlineWindow
       /\ submitTimes = EmptyMap => submitTimes' = EmptyMap
       /\ onlinePlayers = EmptyMap => onlinePlayers' = EmptyMap
       /\ table' = table /\ pending' = pending]_vars

\* a cycle has removed the entry of one origin and kept that of another,
\* which was exactly 15 s old, and kept a presence entry
C18_Witness ==
  /\ Fresh /\ last.op = "reap"
  /\ \E k \in DOMAIN everSubmit : k \notin DOMAIN submitTimes
  /\ \E k \in DOMAIN submitTimes : now - submitTimes[k] = ReapGrace
  /\ onlinePlayers # EmptyMap

\* C19: at every moment each origin gets from the rate check the outcome it
\* would get had no reaper cycle ever run: an entry that is kept has the
\* timestamp it would have, and one that was removed is older than the
\* cooldown; so every submission is answered as it would be without reaper
C19_ReaperKeepsRateLimit ==
  /\ \A k \in DOMAIN submitTimes :
       k \in DOMAIN everSubmit /\ submitTimes[k] = everSubmit[k]
  /\ \A k \in DOMAIN everSubmit \ DOMAIN submitTimes : now - everSubmit[k] > Cooldown
  /\ \A k \in DOMAIN everSubmit :
       RateLimited(submitTimes, k, now) <=> (now - everSubmit[k] < Cooldown)
  /\ \A r \in ReapRateRequests :
       SubmitStatus(r, pool, submitTimes, now) = SubmitStatus(r, pool, everSubmit, now)

\* an origin whose entry the reaper had removed has submitted again and
\* passed the rate check
C19_Witness ==
  /\ Fresh /\ Checked /\ last.status = 0 /\ last.prev = 0
  /\ \E k \in DOMAIN pending :
       pending[k].seq < last.body /\ Ip(pending[k].req) = Ip(last.req)

\* C20: the online count is at every moment what it would be had no reaper
\* cycle ever run: a presence entry that is kept has the timestamp it would
\* have, one that was removed does not count as online, and the counts that
\* pings and online queries answer are those over the unreaped map
C20_ReaperKeepsOnlineCount ==
  /\ \A u \in DOMAIN onlinePlayers :
       u \in DOMAIN everOnline /\ onlinePlayers[u] = everOnline[u]
  /\ \A u \in DOMAIN everOnline \ DOMAIN onlinePlayers :
       ~(everOnline[u] > now - OnlineWindow)
  /\ Cardinality({u \in DOMAIN onlinePlayers : onlinePlayers[u] > now - OnlineWindow})
       = Cardinality({u \in DOMAIN everOnline : everOnline[u] > now - OnlineWindow})
  /\ (Fresh /\ last.op \in {"ping", "online"}) =>
       last.body = Cardinality({u \in DOMAIN everOnline : everOnline[u] > now - OnlineWindow})

\* an online query has counted one player after the reaper had removed the
\* entry of another
C20_Witness ==
  /\ Fresh /\ last.op = "online" /\ last.body = 1
  /\ \E u \in DOMAIN everOnline : u \notin DOMAIN onlinePlayers

====
